---- MODULE Spec2Model ----
(***************************************************************************)
(* A model of edgar_bot.py: the M&A monitor that polls feeds, gates each   *)
(* entry on a per-feed timestamp cursor and a set of sent links,           *)
(* classifies it with negative/positive keyword patterns, resolves a       *)
(* ticker through a fallback chain, and sends a notification.              *)
(*                                                                         *)
(* Texts are sequences of one-character strings; the regular expressions   *)
(* of the source are operators over those sequences.  Timestamps are       *)
(* integers (seconds), prices are integers (cents), a premium is an        *)
(* integer number of tenths of a percent.                                  *)
(*                                                                         *)
(* The feeds' contents and the answers of the remote services (filing      *)
(* page, symbol search, market data) are inputs chosen at each step.  Two  *)
(* of the six configured feeds are kept.  The SIGINT/SIGTERM handler,      *)
(* which only exits the process, and logging are left out.                 *)
(***************************************************************************)
EXTENDS Integers, Sequences, FiniteSets, TLC

VARIABLES
    mode,          \* "test" when --test-date is given, else "monitor"
    credentials,   \* BOT_TOKEN and CHAT_ID are both set
    pc,            \* where the main program is
    test_dt,       \* test_for_date's test_dt, <<>> outside test mode
    feedIdx,       \* the position in FEEDS of the feed being processed, 0 outside the loop
    remaining,     \* entries of data.entries not yet handed to process_entry
    latest_dates,  \* the per-feed cursor
    t_sent_links,  \* the links of the entries that were notified
    sends,         \* per link, the calls of send_telegram_message by process_entry
    rejected,      \* the links of the entries the classifier rejected
    cursor0,       \* the feed's cursor when its entries were fetched
    abandoned,     \* entries of the batch that an exception kept from process_entry
    last           \* the last call of process_entry on the current batch

vars == <<mode, credentials, pc, test_dt, feedIdx, remaining, latest_dates,
          t_sent_links, sends, rejected, cursor0, abandoned, last>>

(***************************************************************************)
(* Bounds of the model.                                                    *)
(***************************************************************************)
\* timestamps range over 0..MaxTime
MaxTime == 2
\* a fetched feed lists at most MaxBatch entries
MaxBatch == 2
\* datetime.now() at startup: time is counted in seconds from it
StartTime == 0

(***************************************************************************)
(* Python values that are not text or numbers.                             *)
(***************************************************************************)
\* Python's None where the value is otherwise a text
None == <<"<None>">>
\* Python's None where the value is otherwise a number n, written <<n>>
NoValue == <<>>

(***************************************************************************)
(* Characters and strings.                                                 *)
(***************************************************************************)
\* the characters of a string, as a sequence of one-character strings
Chars(s) == [i \in 1..Len(s) |-> SubSeq(s, i, i)]

UpperLetters == Chars("ABCDEFGHIJKLMNOPQRSTUVWXYZ")
LowerLetters == Chars("abcdefghijklmnopqrstuvwxyz")
Digits == Chars("0123456789")

Range(f) == {f[i] : i \in DOMAIN f}

IsUpper(c) == c \in Range(UpperLetters)
IsLower(c) == c \in Range(LowerLetters)
IsLetter(c) == IsUpper(c) \/ IsLower(c)
IsDigit(c) == c \in Range(Digits)
\* \w
IsWordChar(c) == IsLetter(c) \/ IsDigit(c) \/ c = "_"
\* \s
IsSpace(c) == c \in {" ", "\t", "\n", "\r"}

IndexIn(c, seq) == CHOOSE i \in DOMAIN seq : seq[i] = c
LowerChar(c) == IF IsUpper(c) THEN LowerLetters[IndexIn(c, UpperLetters)] ELSE c
UpperChar(c) == IF IsLower(c) THEN UpperLetters[IndexIn(c, LowerLetters)] ELSE c
DigitValue(c) == IndexIn(c, Digits) - 1

\* str.lower(), str.upper()
Lower(text) == [i \in DOMAIN text |-> LowerChar(text[i])]
Upper(text) == [i \in DOMAIN text |-> UpperChar(text[i])]

\* str.replace('.', '-')
ReplaceDots(text) == [i \in DOMAIN text |-> IF text[i] = "." THEN "-" ELSE text[i]]

\* str.strip()
Strip(text) ==
    LET keep == {i \in DOMAIN text : ~IsSpace(text[i])}
    IN  IF keep = {} THEN <<>>
        ELSE LET lo == CHOOSE i \in keep : \A j \in keep : i <= j
                 hi == CHOOSE i \in keep : \A j \in keep : j <= i
             IN  SubSeq(text, lo, hi)

\* the character at position i, or "" past either end of the text
At(text, i) == IF i \in DOMAIN text THEN text[i] ELSE ""

\* \b at the position between text[i-1] and text[i]
WordBoundary(text, i) == IsWordChar(At(text, i - 1)) # IsWordChar(At(text, i))

\* the literal string lit occurs in text at position i
LitAt(text, i, lit) ==
    /\ i >= 1
    /\ i + Len(lit) - 1 <= Len(text)
    /\ \A k \in 1..Len(lit) : text[i + k - 1] = SubSeq(lit, k, k)

\* the same, ignoring case (re.IGNORECASE)
LitAtNoCase(text, i, lit) ==
    /\ i >= 1
    /\ i + Len(lit) - 1 <= Len(text)
    /\ \A k \in 1..Len(lit) : LowerChar(text[i + k - 1]) = LowerChar(SubSeq(lit, k, k))

\* the length of the longest run of characters of the set S that starts at i
RECURSIVE RunLen(_, _, _)
RunLen(text, i, S) ==
    IF At(text, i) \in S THEN 1 + RunLen(text, i + 1, S) ELSE 0

LetterSet == Range(UpperLetters) \cup Range(LowerLetters)
DigitSet == Range(Digits)
SpaceSet == {" ", "\t", "\n", "\r"}

Min(a, b) == IF a <= b THEN a ELSE b
Max(a, b) == IF a >= b THEN a ELSE b

(***************************************************************************)
(* The classifier's patterns.  Each keyword regex is the set of the        *)
(* literal strings its alternations and optional groups expand to; each is *)
(* anchored by \b at both ends.                                            *)
(***************************************************************************)
POSITIVE_KEYWORDS ==
    << {"acquisition"}, {"merger"}, {"acquire", "acquisition", "acquiring"},
       {"to acquire"}, {"acquires"}, {"buyout"}, {"takeover"},
       {"merger of equals"},
       {"stock-for-stock", "stock-for stock", "stock for-stock", "stock for stock"},
       {"tender offer"}, {"exchange offer"},
       {"enters into exclusive discussions", "enters into discussions"},
       {"proposed acquisition"}, {"agreement to acquire"}, {"definitive agreement"} >>

NEGATIVE_KEYWORDS ==
    << {"completed"}, {"closing of", "closing"}, {"effective as of"},
       {"finalized"}, {"concluded"}, {"settled"} >>

\* pat.search(text) for a pattern \b(lit1|lit2|...)\b compiled with
\* re.IGNORECASE
PatSearch(pat, text) ==
    \E lit \in pat : \E i \in 1..Len(text) :
        /\ LitAtNoCase(text, i, lit)
        /\ WordBoundary(text, i)
        /\ WordBoundary(text, i + Len(lit))

\* any(pat.search(text) for pat in patterns)
AnyMatch(patterns, text) == \E k \in DOMAIN patterns : PatSearch(patterns[k], text)

\* text_to_check = f"{title}. {content}".lower()
TextToCheck(title, content) == Lower(title \o <<".", " ">> \o content)

\* a mutant of Classify: the positive patterns are tested first
ClassifyPositiveFirst(text) ==
    IF AnyMatch(POSITIVE_KEYWORDS, text) THEN "Positive"
    ELSE IF AnyMatch(NEGATIVE_KEYWORDS, text) THEN "NegativeOverride"
    ELSE "NoMatch"

\* the two tests of process_entry, negative before positive
Classify(text) ==
    IF AnyMatch(NEGATIVE_KEYWORDS, text) THEN "NegativeOverride"
    ELSE IF ~AnyMatch(POSITIVE_KEYWORDS, text) THEN "NoMatch"
    ELSE "Positive"

(***************************************************************************)
(* BeautifulSoup(raw, "html.parser").get_text(): the text outside the      *)
(* tags.  A character is dropped when it lies between a "<" and the next   *)
(* ">" (both included).  Unparsed is raw content the parser raises on.     *)
(***************************************************************************)
Unparsed == <<"<Unparsed>">>

\* the text of raw from position i on; in_tag tells whether position i lies
\* inside a tag
RECURSIVE TextFrom(_, _, _)
TextFrom(raw, i, in_tag) ==
    IF i > Len(raw) THEN <<>>
    ELSE IF in_tag THEN TextFrom(raw, i + 1, raw[i] # ">")
    ELSE IF raw[i] = "<" /\ \E b \in (i + 1)..Len(raw) : raw[b] = ">"
         THEN TextFrom(raw, i + 1, TRUE)
    ELSE <<raw[i]>> \o TextFrom(raw, i + 1, FALSE)

GetText(raw) == TextFrom(raw, 1, FALSE)

(***************************************************************************)
(* extract_ticker.  TICKER_REGEX is                                        *)
(*   (?:NYSE|NASDAQ|AMEX|OTC(?:QB|QX)?|TSX(?:V)?|NEO):?\s*                 *)
(*   ([A-Z]{1,5}(?:\.[A-Z]{1,2})?)\b        with re.IGNORECASE.            *)
(* EXCHANGES lists the expansions of the first group in the order the      *)
(* regex engine tries them.                                                *)
(***************************************************************************)
EXCHANGES == <<"NYSE", "NASDAQ", "AMEX", "OTCQB", "OTCQX", "OTC", "TSXV", "TSX", "NEO">>

\* The match of the regex at position i with exchange name ex: the span
\* <<first, last>> of group 1, or <<>> when there is none.  After the name,
\* ":?" takes a colon when one is there and \s* the whole run of spaces
\* (giving either back leaves a non-letter where [A-Z] must match).  The
\* letters are the whole run, which must be 1 to 5 long (a shorter take is
\* followed by a letter, where neither \. nor \b matches).  The suffix
\* "." plus a whole run of 1 or 2 letters is taken when \b holds after it;
\* otherwise \b must hold right after the letters.
TickerAt(text, i, ex) ==
    IF ~LitAtNoCase(text, i, ex) THEN <<>>
    ELSE LET j == i + Len(ex)
             c == IF At(text, j) = ":" THEN j + 1 ELSE j
             s == c + RunLen(text, c, SpaceSet)
             n == RunLen(text, s, LetterSet)
             e == s + n
             m == RunLen(text, e + 1, LetterSet)
         IN  IF n < 1 \/ n > 5 THEN <<>>
             ELSE IF At(text, e) = "." /\ m \in 1..2 /\ WordBoundary(text, e + 1 + m)
                  THEN <<s, e + m>>
             ELSE IF WordBoundary(text, e) THEN <<s, e - 1>>
             ELSE <<>>

\* the span of group 1 for the first exchange alternative, from the k-th
\* on, that matches at position i; <<>> when none does
RECURSIVE TickerAlt(_, _, _)
TickerAlt(text, i, k) ==
    IF k > Len(EXCHANGES) THEN <<>>
    ELSE IF TickerAt(text, i, EXCHANGES[k]) # <<>> THEN TickerAt(text, i, EXCHANGES[k])
    ELSE TickerAlt(text, i, k + 1)

\* TICKER_REGEX.search(text) from position i on: group 1 of the leftmost
\* match, as m.group(1).upper().replace('.', '-'); None when nothing matches
RECURSIVE TickerFrom(_, _)
TickerFrom(text, i) ==
    IF i > Len(text) THEN None
    ELSE IF TickerAlt(text, i, 1) = <<>> THEN TickerFrom(text, i + 1)
    ELSE ReplaceDots(Upper(SubSeq(text, TickerAlt(text, i, 1)[1], TickerAlt(text, i, 1)[2])))

extract_ticker(text) == TickerFrom(text, 1)

(***************************************************************************)
(* extract_offer_price.  Every pattern is a prefix, \s*, \$, \s*, and the  *)
(* number ([0-9]{1,3}(?:,[0-9]{3})*(?:\.[0-9]{1,2})?).                     *)
(***************************************************************************)
PRICE_PREFIXES == <<"", "for", "at", "per share", "consideration of">>

\* the value of the digits text[a..b], as an integer
RECURSIVE DigitsValue(_, _, _)
DigitsValue(text, a, b) ==
    IF b < a THEN 0 ELSE 10 * DigitsValue(text, a, b - 1) + DigitValue(text[b])

\* the number of groups ",ddd" that start at position i (greedy)
RECURSIVE ThousandGroups(_, _)
ThousandGroups(text, i) ==
    IF At(text, i) = "," /\ RunLen(text, i + 1, DigitSet) >= 3
    THEN 1 + ThousandGroups(text, i + 4)
    ELSE 0

\* the whole part text[a..] made of d leading digits and g groups ",ddd"
RECURSIVE GroupsValue(_, _, _, _)
GroupsValue(text, i, g, acc) ==
    IF g = 0 THEN acc
    ELSE GroupsValue(text, i + 4, g - 1, 1000 * acc + DigitsValue(text, i + 1, i + 3))

\* float(m.group(1).replace(',', '')) in cents, for the number that starts
\* at position i; NoValue when no digit is there.  Nothing follows the number
\* in the patterns, so each greedy quantifier keeps all it can take.
NumberAt(text, i) ==
    LET d == Min(3, RunLen(text, i, DigitSet))
        g == ThousandGroups(text, i + d)
        e == i + d + 4 * g
        f == IF At(text, e) = "." THEN Min(2, RunLen(text, e + 1, DigitSet)) ELSE 0
        whole == GroupsValue(text, i + d, g, DigitsValue(text, i, i + d - 1))
        frac == IF f = 0 THEN 0
                ELSE IF f = 1 THEN 10 * DigitsValue(text, e + 1, e + 1)
                ELSE DigitsValue(text, e + 1, e + 2)
    IN  IF d = 0 THEN NoValue ELSE <<100 * whole + frac>>

\* the value matched by the pattern with the given prefix at position i
PriceAt(text, i, prefix) ==
    IF ~LitAtNoCase(text, i, prefix) THEN NoValue
    ELSE LET a == i + Len(prefix)
             b == IF prefix = "" THEN a ELSE a + RunLen(text, a, SpaceSet)
         IN  IF At(text, b) # "$" THEN NoValue
             ELSE NumberAt(text, b + 1 + RunLen(text, b + 1, SpaceSet))

\* re.search(pat, text, re.IGNORECASE) from position i on: the value of the
\* leftmost match
RECURSIVE PriceSearch(_, _, _)
PriceSearch(text, i, prefix) ==
    IF i > Len(text) THEN NoValue
    ELSE IF PriceAt(text, i, prefix) # NoValue THEN PriceAt(text, i, prefix)
    ELSE PriceSearch(text, i + 1, prefix)

\* the patterns from the k-th on: the first that matches decides
RECURSIVE OfferPriceFrom(_, _)
OfferPriceFrom(text, k) ==
    IF k > Len(PRICE_PREFIXES) THEN NoValue
    ELSE IF PriceSearch(text, 1, PRICE_PREFIXES[k]) # NoValue
         THEN PriceSearch(text, 1, PRICE_PREFIXES[k])
    ELSE OfferPriceFrom(text, k + 1)

extract_offer_price(text) == OfferPriceFrom(text, 1)

(***************************************************************************)
(* extract_target_name.  Each pattern is a list of words separated by \s+, *)
(* a last \s+, the lazy group ([\w\s&'\.-]{5,40}?) and \b.  The second     *)
(* pattern's first word is acqui(sition|ring): two patterns here, in the   *)
(* order the engine tries the alternatives.                                *)
(***************************************************************************)
TARGET_PATTERNS ==
    << << <<"to", "acquire">> >>,
       << <<"acquisition", "of">>, <<"acquiring", "of">> >>,
       << <<"merger", "with">> >>,
       << <<"agreement", "to", "acquire">> >>,
       << <<"enters", "into", "discussions", "to", "acquire">> >> >>

\* the last pattern separates its words by one space, the others by \s+
SINGLE_SPACED == {5}

NameChars == LetterSet \cup DigitSet \cup SpaceSet \cup {"_", "&", "'", ".", "-"}

\* the position after the words (each followed by its separator) when they
\* match from position i with every separator taken greedily; 0 when they
\* do not match.
RECURSIVE WordsEnd(_, _, _, _, _)
WordsEnd(text, i, words, k, single) ==
    IF k > Len(words) THEN i
    ELSE IF ~LitAtNoCase(text, i, words[k]) THEN 0
    ELSE LET a == i + Len(words[k])
             n == RunLen(text, a, SpaceSet)
         IN  IF single
             THEN (IF At(text, a) # " " THEN 0
                   ELSE WordsEnd(text, a + 1, words, k + 1, single))
             ELSE (IF n = 0 THEN 0
                   ELSE WordsEnd(text, a + n, words, k + 1, single))

\* The length of the lazy group that starts at s, trying lengths from n on:
\* the shortest length 5..40 of NameChars after which \b holds; 0 when
\* there is none.
RECURSIVE LazyLen(_, _, _)
LazyLen(text, s, n) ==
    IF n > 40 \/ At(text, s + n - 1) \notin NameChars THEN 0
    ELSE IF n >= 5 /\ WordBoundary(text, s + n) THEN n
    ELSE LazyLen(text, s, n + 1)

\* The group's span <<first, last>> for a group that starts at s or, when
\* none does and the \s+ before it is greedy, earlier: the engine gives the
\* spaces of the \s+ back one at a time (the group's class holds \s) and
\* keeps at least one.  <<>> when no start gives a group.
RECURSIVE GroupFrom(_, _, _)
GroupFrom(text, s, greedy) ==
    IF LazyLen(text, s, 1) # 0 THEN <<s, s + LazyLen(text, s, 1) - 1>>
    ELSE IF greedy /\ IsSpace(At(text, s - 1)) /\ IsSpace(At(text, s - 2))
         THEN GroupFrom(text, s - 1, greedy)
    ELSE <<>>

\* The group's span for the words matched from position i; <<>> when there
\* is no match.
TargetAt(text, i, words, single) ==
    IF WordsEnd(text, i, words, 1, single) = 0 THEN <<>>
    ELSE GroupFrom(text, WordsEnd(text, i, words, 1, single), ~single)

\* re.sub(r'\s*[.,;:]\s*$', '', target.strip()): the text is stripped, so
\* the match is a last character of [.,;:] and the spaces before it
RECURSIVE DropSpaces(_)
DropSpaces(t) ==
    IF t # <<>> /\ IsSpace(t[Len(t)]) THEN DropSpaces(SubSeq(t, 1, Len(t) - 1)) ELSE t

CleanStripped(t) ==
    IF t # <<>> /\ t[Len(t)] \in {".", ",", ";", ":"}
    THEN DropSpaces(SubSeq(t, 1, Len(t) - 1))
    ELSE t

CleanName(target) == CleanStripped(Strip(target))

\* the group's span for the first alternative of pattern p, from the a-th
\* on, that matches at position i; <<>> when none does
RECURSIVE TargetAlt(_, _, _, _)
TargetAlt(text, p, i, a) ==
    IF a > Len(TARGET_PATTERNS[p]) THEN <<>>
    ELSE IF TargetAt(text, i, TARGET_PATTERNS[p][a], p \in SINGLE_SPACED) # <<>>
         THEN TargetAt(text, i, TARGET_PATTERNS[p][a], p \in SINGLE_SPACED)
    ELSE TargetAlt(text, p, i, a + 1)

\* re.search for pattern p from position i on: the group's span in the
\* leftmost match, <<>> when there is none
RECURSIVE TargetSearch(_, _, _)
TargetSearch(text, p, i) ==
    IF i > Len(text) THEN <<>>
    ELSE IF TargetAlt(text, p, i, 1) # <<>> THEN TargetAlt(text, p, i, 1)
    ELSE TargetSearch(text, p, i + 1)

SpanText(text, g) == SubSeq(text, g[1], g[2])

\* the patterns from the p-th on: the first that matches decides; None when
\* none does
RECURSIVE TargetNameFrom(_, _)
TargetNameFrom(text, p) ==
    IF p > Len(TARGET_PATTERNS) THEN None
    ELSE IF TargetSearch(text, p, 1) # <<>>
         THEN CleanName(SpanText(text, TargetSearch(text, p, 1)))
    ELSE TargetNameFrom(text, p + 1)

extract_target_name(text) == TargetNameFrom(text, 1)

(***************************************************************************)
(* The external services.  Each call gets a response drawn from a small    *)
(* set: ok = FALSE is a call that raises (network error, HTTP error,       *)
(* malformed body), which the caller's try/except turns into "no data".    *)
(***************************************************************************)
\* Python truthiness of an optional text and of an optional number
TruthyText(x) == x # None /\ x # <<>>
TruthyNum(x) == x # NoValue /\ x # <<0>>

\* a or b
OrText(a, b) == IF TruthyText(a) THEN a ELSE b
OrNum(a, b) == IF TruthyNum(a) THEN a ELSE b

\* fetch_full_text_ticker: the ticker of the page's text, None on any error
fetch_full_text_ticker(page) ==
    IF page.ok THEN extract_ticker(GetText(page.text)) ELSE None

\* the symbol of the first item of quotes, from position i on, whose symbol
\* is truthy and whose quoteType is in types; None when there is none
RECURSIVE FirstQuote(_, _, _)
FirstQuote(quotes, i, types) ==
    IF i > Len(quotes) THEN None
    ELSE IF TruthyText(quotes[i].symbol) /\ quotes[i].quoteType \in types
         THEN quotes[i].symbol
         ELSE FirstQuote(quotes, i + 1, types)

\* lookup_ticker_by_name: no request for an empty name; otherwise the first
\* quote with a symbol whose quoteType is in ["EQUITY", "ETF"]
lookup_ticker_by_name(name, resp) ==
    IF ~TruthyText(name) \/ ~resp.ok THEN None
    ELSE FirstQuote(resp.quotes, 1, {"EQUITY", "ETF"})

\* get_market_price: regularMarketPrice or previousClose or currentPrice,
\* None when the provider raises
get_market_price(info) ==
    IF ~info.ok THEN NoValue
    ELSE OrNum(OrNum(info.regularMarketPrice, info.previousClose), info.currentPrice)

\* f"{premium_pct:.1f}" of (offer - market) / market * 100, in tenths of a
\* percent, rounded to the nearest tenth; NoValue on ZeroDivisionError
Premium(offer, market) ==
    IF market = 0 THEN NoValue
    ELSE <<(2000 * (offer - market) + market) \div (2 * market)>>

\* send_telegram_message: whether the HTTP POST is made.  Without
\* credentials the function returns before it; an error of the POST is
\* caught and logged.
send_telegram_message(configured) == configured

(***************************************************************************)
(* The inputs of the model.                                                *)
(***************************************************************************)
\* FEEDS, by name: two of the six configured feeds
FEEDS == <<"SEC 8-K", "PR Newswire M&A">>
Times == 0..MaxTime
Links == {"a", "b"}
\* the dates --test-date may name: midnights up to startup
TestDates == 0..StartTime

ScenarioA == Chars("Acme Corp to acquire Widget Inc for $54.00 per share (NASDAQ: WDGT)")
ScenarioB == Chars("Acme Corp completes acquisition of Widget Inc")

\* An entry is a record that has a field for each attribute the feed item
\* has: hasattr(entry, a) is a \in DOMAIN entry.
HasAttr(entry, a) == a \in DOMAIN entry

\* entries that differ in link and timestamp: one the classifier accepts
\* (ticker and price in the body), one it rejects (a negative and a
\* positive keyword, in markup)
GateEntries ==
    { [link |-> l, updated_parsed |-> <<t>>,
       title |-> Chars("Tender offer for Widget"),
       summary |-> Chars("Offer of $1,234.5 per share (NYSE: WID.A)")] : l \in Links, t \in Times }
    \cup
    { [link |-> l, updated_parsed |-> <<t>>,
       title |-> Chars("Merger completed"),
       summary |-> Chars("<p>Acquisition of Widget <b>closing</b></p>")] : l \in Links, t \in Times }

\* entries that differ in their texts
TextEntries ==
    { [link |-> "a", published_parsed |-> <<MaxTime>>, title |-> ScenarioA],
      [link |-> "a", published_parsed |-> <<MaxTime>>, title |-> ScenarioB, summary |-> <<>>],
      [link |-> "a", created_parsed |-> <<MaxTime>>,
       title |-> Chars(" Quarterly results "), description |-> Chars("Revenue up")],
      [link |-> "b", published_parsed |-> <<MaxTime>>, title |-> None,
       content |-> << [value |-> Chars("Buyout announced")] >>, summary |-> Chars("closing")],
      [link |-> "b", published_parsed |-> <<MaxTime>>,
       title |-> Chars("Acme buyout"), summary |-> Unparsed] }

\* malformed entries: no link, no date attribute, a date attribute that is
\* None, no title
BadEntries ==
    { [updated_parsed |-> <<MaxTime>>, title |-> Chars("Merger"), summary |-> <<>>],
      [link |-> "a", title |-> Chars("Merger"), summary |-> <<>>],
      [link |-> "a", updated_parsed |-> NoValue, published_parsed |-> <<MaxTime>>,
       title |-> Chars("Merger"), summary |-> <<>>],
      [link |-> "b", updated_parsed |-> <<MaxTime>>, summary |-> Chars("Merger")] }

\* what feedparser may hand to process_entry
Entries == GateEntries \cup TextEntries \cup BadEntries

\* responses of the linked page (requests.get in fetch_full_text_ticker)
PageResponses ==
    { [ok |-> FALSE, text |-> <<>>],
      [ok |-> TRUE, text |-> Chars("<html>Widget Inc (NASDAQ: WDGT)</html>")],
      [ok |-> TRUE, text |-> Chars("<html>Widget Inc</html>")] }

\* responses of the symbol search (requests.get in lookup_ticker_by_name)
LookupResponses ==
    { [ok |-> FALSE, quotes |-> <<>>],
      [ok |-> TRUE, quotes |-> << [symbol |-> None, quoteType |-> "EQUITY"],
                                  [symbol |-> Chars("^WID"), quoteType |-> "INDEX"] >>],
      [ok |-> TRUE, quotes |-> << [symbol |-> Chars("WETF"), quoteType |-> "ETF"],
                                  [symbol |-> Chars("WDGT"), quoteType |-> "EQUITY"] >>] }

\* responses of the market-data provider (stock.info in get_market_price)
MarketResponses ==
    { [ok |-> FALSE, regularMarketPrice |-> NoValue, previousClose |-> NoValue, currentPrice |-> NoValue],
      [ok |-> TRUE, regularMarketPrice |-> <<4500>>, previousClose |-> <<4400>>, currentPrice |-> NoValue],
      [ok |-> TRUE, regularMarketPrice |-> NoValue, previousClose |-> <<0>>, currentPrice |-> <<0>>] }

\* a response for a call that is not made
NoResponse == [ok |-> FALSE]

(***************************************************************************)
(* process_entry, up to the classifier: the part that depends on the entry *)
(* alone.                                                                  *)
(***************************************************************************)
DATE_ATTRS == <<"updated_parsed", "published_parsed", "created_parsed">>

\* the first of DATE_ATTRS that the entry has, 0 when it has none
DateAttr(entry) ==
    LET has == {k \in DOMAIN DATE_ATTRS : HasAttr(entry, DATE_ATTRS[k])}
    IN  IF has = {} THEN 0 ELSE CHOOSE k \in has : \A j \in has : k <= j

\* title = (entry.title or "").strip()
Title(entry) == Strip(OrText(entry.title, <<>>))

\* entry.content[0].value when the entry has a non-empty content list, else
\* entry.get('summary', entry.get('description', ''))
RawContent(entry) ==
    IF HasAttr(entry, "content") /\ entry.content # <<>> THEN entry.content[1].value
    ELSE IF HasAttr(entry, "summary") THEN entry.summary
    ELSE IF HasAttr(entry, "description") THEN entry.description
    ELSE <<>>

\* content = BeautifulSoup(raw_content, "html.parser").get_text(), "" when
\* that raises
Content(entry) ==
    LET raw == RawContent(entry)
    IN  IF raw = Unparsed THEN <<>> ELSE GetText(raw)

\* what process_entry computes from the texts of an entry that has a title
Parse(entry) ==
    LET title == Title(entry)
        content == Content(entry)
    IN  [ title |-> title,
          text_to_check |-> TextToCheck(title, content),
          verdict |-> Classify(TextToCheck(title, content)),
          inline |-> extract_ticker(content),
          target_name |-> OrText(extract_target_name(title), extract_target_name(content)),
          offer_price |-> extract_offer_price(content) ]

\* Parse, tabulated over the entries of the model
Parsed == [entry \in {e \in Entries : HasAttr(e, "title")} |-> Parse(entry)]

\* fetch_full_text_ticker, tabulated over the page responses of the model
PageTicker == [page \in PageResponses |-> fetch_full_text_ticker(page)]

(***************************************************************************)
(* The gate, the seen-set and the cursor.                                  *)
(***************************************************************************)
\* a mutant of ShouldSkip: the cursor alone decides
ShouldSkipCursorOnly(pub_date, cursor, link, sent) == pub_date <= cursor

\* if pub_date <= latest_dates[feed_name] or link in t_sent_links: return
ShouldSkip(pub_date, cursor, link, sent) == pub_date <= cursor \/ link \in sent

\* a mutant of MarkSent: the link is not recorded
MarkSentForgets(sent, link) == sent

\* t_sent_links.add(link)
MarkSent(sent, link) == sent \cup {link}

\* a mutant of AdvanceCursor: min for max
AdvanceCursorMin(dates, feed_name, pub_date) ==
    [dates EXCEPT ![feed_name] = Min(dates[feed_name], pub_date)]

\* latest_dates[feed_name] = max(latest_dates[feed_name], pub_date)
AdvanceCursor(dates, feed_name, pub_date) ==
    [dates EXCEPT ![feed_name] = Max(dates[feed_name], pub_date)]

(***************************************************************************)
(* Ticker resolution and pricing (process_entry, after the classifier).    *)
(* p is Parsed[entry]; page, l1, l2 and info are the responses of the      *)
(* calls that are made.                                                    *)
(***************************************************************************)
\* the linked page is fetched when the body holds no ticker
FetchesPage(p) == ~TruthyText(p.inline)

\* ticker = extract_ticker(content) or fetch_full_text_ticker(link)
Ticker1(p, page) == IF FetchesPage(p) THEN OrText(p.inline, PageTicker[page]) ELSE p.inline

\* the symbol search is asked for the target name when there is still no
\* ticker and a target name was found
AsksTarget(p, page) == ~TruthyText(Ticker1(p, page)) /\ TruthyText(p.target_name)

Ticker2(p, page, l1) ==
    IF TruthyText(Ticker1(p, page)) THEN Ticker1(p, page)
    ELSE IF AsksTarget(p, page) THEN lookup_ticker_by_name(p.target_name, l1)
    ELSE None

\* the symbol search is asked for the title when there is still no ticker
\* (for an empty title lookup_ticker_by_name returns before the request)
AsksTitle(p, page, l1) == ~TruthyText(Ticker2(p, page, l1)) /\ TruthyText(p.title)

Ticker3(p, page, l1, l2) ==
    IF TruthyText(Ticker2(p, page, l1)) THEN Ticker2(p, page, l1)
    ELSE IF AsksTitle(p, page, l1) THEN lookup_ticker_by_name(p.title, l2)
    ELSE None

\* which step of the chain gave the ticker
ResolvedBy(p, page, l1, l2) ==
    IF TruthyText(p.inline) THEN "inline"
    ELSE IF TruthyText(Ticker1(p, page)) THEN "full_text"
    ELSE IF TruthyText(Ticker2(p, page, l1)) THEN "target_name"
    ELSE IF TruthyText(Ticker3(p, page, l1, l2)) THEN "title"
    ELSE "none"

\* the requests made to the symbol search, each with its result
Lookups(p, page, l1, l2) ==
    (IF AsksTarget(p, page)
     THEN << [response |-> l1, result |-> lookup_ticker_by_name(p.target_name, l1)] >>
     ELSE <<>>)
    \o
    (IF AsksTitle(p, page, l1)
     THEN << [response |-> l2, result |-> lookup_ticker_by_name(p.title, l2)] >>
     ELSE <<>>)

\* the ticker, offer price, market price and premium lines of the message
Pricing(p, ticker, info) ==
    LET market_price == get_market_price(info)
        offer_price == p.offer_price
    IN  IF ~TruthyText(ticker)
        THEN [offer_price |-> NoValue, market_price |-> NoValue, premium |-> NoValue]
        ELSE [offer_price |-> offer_price, market_price |-> market_price,
              premium |-> IF offer_price # NoValue /\ market_price # NoValue
                          THEN Premium(offer_price[1], market_price[1])
                          ELSE NoValue]

(***************************************************************************)
(* The program.                                                            *)
(***************************************************************************)
\* a local variable of process_entry that holds a string and is not set
Unset == "<unset>"

\* The record of a call of process_entry: its locals and its outcome, which
\* is "raised" (an exception left the function), "no_date", "skipped" (by
\* the gate), "negative", "no_match" or "notified".  gate tells whether the
\* call went past the gate, text is text_to_check (None before it is set),
\* posted whether send_telegram_message made its HTTP POST, lookups the
\* requests made to the symbol search.
NoCall ==
    [ feed |-> Unset, link |-> Unset, pub_date |-> NoValue, outcome |-> "none",
      gate |-> FALSE, text |-> None, cursor_before |-> 0, seen_before |-> FALSE,
      rejected_before |-> FALSE, ticker |-> None, by |-> "none",
      offer_price |-> NoValue, market_price |-> NoValue, premium |-> NoValue,
      posted |-> FALSE, lookups |-> <<>> ]

\* module state after import: no cursor, no sent link
Init ==
    /\ mode \in {"monitor", "test"}
    /\ credentials \in BOOLEAN
    /\ pc = "main"
    /\ test_dt = NoValue
    /\ feedIdx = 0
    /\ remaining = 0
    /\ latest_dates = [f \in {} |-> 0]
    /\ t_sent_links = {}
    /\ sends = [l \in Links |-> 0]
    /\ rejected = {}
    /\ cursor0 = 0
    /\ abandoned = 0
    /\ last = NoCall

\* init_latest_dates: every feed's cursor is now
init_latest_dates ==
    /\ pc = "main"
    /\ latest_dates' = [f \in Range(FEEDS) |-> StartTime]
    /\ pc' = IF mode = "test" THEN "test_for_date" ELSE "run_monitor"
    /\ UNCHANGED <<mode, credentials, test_dt, feedIdx, remaining, t_sent_links,
                   sends, rejected, cursor0, abandoned, last>>

\* test_for_date, before its loop: every cursor is one second before the
\* test date
test_for_date ==
    /\ pc = "test_for_date"
    /\ \E d \in TestDates :
          /\ test_dt' = <<d>>
          /\ latest_dates' = [k \in DOMAIN latest_dates |-> d - 1]
    /\ pc' = "fetch"
    /\ feedIdx' = 1
    /\ UNCHANGED <<mode, credentials, remaining, t_sent_links, sends, rejected,
                   cursor0, abandoned, last>>

\* run_monitor, before its loop: the start message (it names no entry)
run_monitor ==
    /\ pc = "run_monitor"
    /\ pc' = "fetch"
    /\ feedIdx' = 1
    /\ UNCHANGED <<mode, credentials, test_dt, remaining, latest_dates,
                   t_sent_links, sends, rejected, cursor0, abandoned, last>>

\* data = feedparser.parse(feed['url']): some number of entries; an exception
\* of the parse is caught by the feed's try/except and leaves no entry
parse_feed ==
    /\ pc = "fetch"
    /\ \E n \in 0..MaxBatch : remaining' = n
    /\ cursor0' = latest_dates[FEEDS[feedIdx]]
    /\ abandoned' = 0
    /\ last' = NoCall
    /\ pc' = "entries"
    /\ UNCHANGED <<mode, credentials, test_dt, feedIdx, latest_dates, t_sent_links,
                   sends, rejected>>

\* the call's record when process_entry is entered
Called ==
    [NoCall EXCEPT !.feed = FEEDS[feedIdx], !.cursor_before = latest_dates[FEEDS[feedIdx]]]

\* the call's record once link is set
Linked(call, link) ==
    [call EXCEPT !.link = link,
                 !.seen_before = link \in t_sent_links,
                 !.rejected_before = link \in rejected]

\* process_entry raises: the feed's "except Exception" catches it outside the
\* loop over data.entries, so the entries left in the batch are not processed
Raises(call) ==
    /\ last' = [call EXCEPT !.outcome = "raised"]
    /\ abandoned' = remaining - 1
    /\ remaining' = 0
    /\ UNCHANGED <<latest_dates, t_sent_links, sends, rejected>>

\* process_entry returns without touching the state
Returns(call, outcome) ==
    /\ last' = [call EXCEPT !.outcome = outcome]
    /\ remaining' = remaining - 1
    /\ UNCHANGED <<latest_dates, t_sent_links, sends, rejected, abandoned>>

\* the classifier rejects: the cursor advances, the link is not recorded
Rejects(call, outcome, link, pub_date) ==
    /\ last' = [call EXCEPT !.outcome = outcome]
    /\ latest_dates' = AdvanceCursor(latest_dates, FEEDS[feedIdx], pub_date)
    /\ rejected' = rejected \cup {link}
    /\ remaining' = remaining - 1
    /\ UNCHANGED <<t_sent_links, sends, abandoned>>

\* the entry is accepted: resolution, pricing, send_telegram_message, then
\* the link is recorded and the cursor advances
Notifies(call, p, link, pub_date) ==
    \E page \in (IF FetchesPage(p) THEN PageResponses ELSE {NoResponse}) :
    \E l1 \in (IF AsksTarget(p, page) THEN LookupResponses ELSE {NoResponse}) :
    \E l2 \in (IF AsksTitle(p, page, l1) THEN LookupResponses ELSE {NoResponse}) :
    \E info \in (IF TruthyText(Ticker3(p, page, l1, l2)) THEN MarketResponses ELSE {NoResponse}) :
        LET ticker == Ticker3(p, page, l1, l2)
            prices == Pricing(p, ticker, info)
        IN  /\ last' = [call EXCEPT !.outcome = "notified",
                                    !.ticker = ticker,
                                    !.by = ResolvedBy(p, page, l1, l2),
                                    !.lookups = Lookups(p, page, l1, l2),
                                    !.offer_price = prices.offer_price,
                                    !.market_price = prices.market_price,
                                    !.premium = prices.premium,
                                    !.posted = send_telegram_message(credentials)]
            /\ sends' = [sends EXCEPT ![link] = @ + 1]
            /\ t_sent_links' = MarkSent(t_sent_links, link)
            /\ latest_dates' = AdvanceCursor(latest_dates, FEEDS[feedIdx], pub_date)
            /\ remaining' = remaining - 1
            /\ UNCHANGED <<rejected, abandoned>>

\* one iteration of "for entry in data.entries: process_entry(feed['name'], entry)"
process_entry ==
    /\ pc = "entries"
    /\ remaining > 0
    /\ \E entry \in Entries :
          LET k == DateAttr(entry)
          IN  IF ~HasAttr(entry, "link") THEN Raises(Called)
              ELSE IF k = 0 THEN Returns(Linked(Called, entry.link), "no_date")
              ELSE IF entry[DATE_ATTRS[k]] = NoValue THEN Raises(Linked(Called, entry.link))
              ELSE LET link == entry.link
                       pub_date == entry[DATE_ATTRS[k]][1]
                       dated == [Linked(Called, link) EXCEPT !.pub_date = <<pub_date>>]
                       passed == [dated EXCEPT !.gate = TRUE]
                       checked == [passed EXCEPT !.text = Parsed[entry].text_to_check]
                   IN  IF ShouldSkip(pub_date, latest_dates[FEEDS[feedIdx]], link, t_sent_links)
                       THEN Returns(dated, "skipped")
                       ELSE IF ~HasAttr(entry, "title") THEN Raises(passed)
                       ELSE IF Parsed[entry].verdict = "NegativeOverride"
                            THEN Rejects(checked, "negative", link, pub_date)
                       ELSE IF Parsed[entry].verdict = "NoMatch"
                            THEN Rejects(checked, "no_match", link, pub_date)
                       ELSE Notifies(checked, Parsed[entry], link, pub_date)
    /\ UNCHANGED <<mode, credentials, pc, test_dt, feedIdx, cursor0>>

\* the batch is done: the next feed; after the last feed the monitor sleeps
\* and test mode ends
next_feed ==
    /\ pc = "entries"
    /\ remaining = 0
    /\ IF feedIdx < Len(FEEDS)
       THEN pc' = "fetch" /\ feedIdx' = feedIdx + 1
       ELSE pc' = (IF mode = "test" THEN "done" ELSE "sleep") /\ feedIdx' = 0
    /\ cursor0' = 0
    /\ abandoned' = 0
    /\ last' = NoCall
    /\ UNCHANGED <<mode, credentials, test_dt, remaining, latest_dates,
                   t_sent_links, sends, rejected>>

\* time.sleep(60), then the next polling cycle
sleep ==
    /\ pc = "sleep"
    /\ pc' = "fetch"
    /\ feedIdx' = 1
    /\ UNCHANGED <<mode, credentials, test_dt, remaining, latest_dates,
                   t_sent_links, sends, rejected, cursor0, abandoned, last>>

Next ==
    \/ init_latest_dates
    \/ test_for_date
    \/ run_monitor
    \/ parse_feed
    \/ process_entry
    \/ next_feed
    \/ sleep

Spec == Init /\ [][Next]_vars

(***************************************************************************)
(* Properties.                                                             *)
(***************************************************************************)
\* the texts the classifier is given in the model, and what the two pattern
\* lists say of each
CheckedTexts == {Parsed[e].text_to_check : e \in DOMAIN Parsed}
NegativeHit == [t \in CheckedTexts |-> AnyMatch(NEGATIVE_KEYWORDS, t)]
PositiveHit == [t \in CheckedTexts |-> AnyMatch(POSITIVE_KEYWORDS, t)]

\* the call went past the gate with a timestamp newer than the cursor it met
NewerThanCursor == last.pub_date # NoValue /\ last.pub_date[1] > last.cursor_before

\* text_to_check of the two end-to-end scenarios, whose entries have no body
ScenarioAText == TextToCheck(ScenarioA, <<>>)
ScenarioBText == TextToCheck(ScenarioB, <<>>)

\* the symbol of the first quote whose type is EQUITY, None when there is none
FirstEquity(quotes) ==
    LET eq == {i \in DOMAIN quotes : quotes[i].quoteType = "EQUITY"}
    IN  IF eq = {} THEN None
        ELSE quotes[CHOOSE i \in eq : \A j \in eq : i <= j].symbol

\* C1: send_telegram_message is called by process_entry at most once for
\* any link, whatever the feeds list over the polling cycles.
AtMostOncePerLink == \A l \in Links : sends[l] <= 1

\* a link that was notified through the first feed is listed by the second
\* feed, newer than that feed's cursor, and is skipped
AtMostOncePerLink_Witness ==
    /\ last.outcome = "skipped"
    /\ last.feed = FEEDS[2]
    /\ last.seen_before
    /\ NewerThanCursor
    /\ sends[last.link] = 1

\* C2: an entry that passes the gate is notified if and only if its text was
\* built, no negative pattern matches it and a positive pattern matches it.
ClassifierDecides ==
    last.gate =>
        (last.outcome = "notified"
            <=> (/\ last.text # None
                 /\ ~NegativeHit[last.text]
                 /\ PositiveHit[last.text]))

\* precedence: a text that a negative and a positive pattern match is rejected
ClassifierDecides_Witness ==
    /\ last.outcome = "negative"
    /\ PositiveHit[last.text]

ScenarioBRejected ==
    last.text = ScenarioBText => (last.outcome = "negative" /\ ~last.posted)

\* C6: the entry titled "Acme Corp to acquire Widget Inc for $54.00 per share
\* (NASDAQ: WDGT)" is accepted, its ticker WDGT comes from inline extraction,
\* its offer price is 54.00 and, with a market price of 45.00, its premium 20.0.
ScenarioAResolved ==
    last.text = ScenarioAText =>
        /\ last.outcome = "notified"
        /\ last.ticker = Chars("WDGT")
        /\ last.by = "inline"
        /\ last.offer_price = <<5400>>
        /\ (last.market_price = <<4500>> => last.premium = <<200>>)

\* C7: lookup_ticker_by_name returns the symbol of the first equity of the
\* search results, and nothing when they hold no equity.
LookupAcceptsOnlyEquities ==
    \A i \in DOMAIN last.lookups :
        last.lookups[i].response.ok =>
            last.lookups[i].result = FirstEquity(last.lookups[i].response.quotes)

\* C8: in test mode every cursor starts one second before the test date,
\* there is one pass and no polling cycle after it, and no notification is
\* dispatched by HTTP POST.
TestModeDoesNotDispatch ==
    mode = "test" =>
        /\ (pc = "fetch" /\ feedIdx = 1) =>
                \A f \in DOMAIN latest_dates : latest_dates[f] = test_dt[1] - 1
        /\ pc # "sleep"
        /\ ~last.posted

\* C9: in a polling cycle of run_monitor, an entry newer than the cursor its
\* feed had when the cycle fetched it is not skipped by the gate unless its
\* link is in the seen-set.
NoNewEntryLost ==
    (/\ mode = "monitor"
     /\ last.outcome = "skipped"
     /\ last.pub_date[1] > cursor0) => last.seen_before

\* C10: when process_entry fails on an entry, the other entries of the batch
\* are still handed to process_entry.
ErrorSkipsOnlyTheEntry == last.outcome = "raised" => abandoned = 0
====
